---------------------------- MODULE Spec2Model ----------------------------
(***************************************************************************)
(* A model of game_of_life: Conway's Game of Life evolved by GPU compute   *)
(* dispatches and driven by a winit event loop (src/src/lib.rs).           *)
(*                                                                         *)
(* The host is the single driver thread of GameOfLife::run; `pc` is its    *)
(* position (idle between events, or blocked in one of the fence waits).   *)
(* The GPU is a list of submitted operations `gpu`, each with the set of   *)
(* operations it still waits for (semaphores, fences and joined futures of *)
(* vulkano's GpuFuture chain); an operation starts when that set is empty  *)
(* and finishes at any later time.                                         *)
(*                                                                         *)
(* Instants are kept as ages: `timer` and the entries of fps_counter hold  *)
(* the milliseconds elapsed since that Instant, because the code only ever *)
(* uses differences (now - timer, now - x).  Time passes while the event   *)
(* loop waits for the events of its next iteration: every                  *)
(* MainEventsCleared is given the time dt since the one before it.         *)
(***************************************************************************)
EXTENDS Integers, Naturals, Sequences, FiniteSets, TLC

(***************************************************************************)
(* Bounds of the model.                                                    *)
(***************************************************************************)
\* Spec: grids of at most this many cells.
MaxCells == 3
\* SpecRule: the grid's width and height; up to MaxDense cells the initial
\* content is any content, above it a row of at most MaxRun live cells;
\* at most MaxSteps steps are taken.
MaxWidth == 6
MaxHeight == 4
MaxDense == 9
MaxRun == 3
MaxSteps == 2
\* Operations in flight on the GPU.
MaxOps == 6
\* SpecCamera: window events handled.
MaxEvents == 4
\* SpecGroups: the grid's width and height reach this many workgroup edges,
\* and one cell more.
MaxTiles == 1
\* Ages of Instants saturate here: every age above 1000 ms behaves alike.
Saturate == 1001

(***************************************************************************)
(* Program constants.                                                      *)
(***************************************************************************)
\* The local workgroup edge the dispatch sizes are computed for.
WorkgroupEdge == 32
\* Controller::new: the initial simulation speed.
InitialSpeed == 60
\* The rolling fps window and the pacing numerator, in milliseconds.
Second == 1000

VARIABLES
    size,               \* Config::size(): <<width, height>>
    sameQueue,          \* whether compute_queue and graphics_queue are one queue
    mem,                \* GPU buffers: output (live) and input (snapshot)
    gpu,                \* submitted, unfinished GPU operations, in submission order
    pc,                 \* where the driver thread is
    future,             \* the GpuFuture the driver holds: ids it waits for
    previous_frame_end, \* the renderer's fence future of the last present
    timer,              \* age of `timer` (lib.rs:95) at the last MainEventsCleared, in ms
    minimized,          \* lib.rs:96
    flip,               \* lib.rs:97
    controller,         \* Controller: grid, speed, max_speed, fps_counter
    msgs,               \* user events (Message) sent and not yet handled
    camera,             \* Camera, see CameraInit
    hist                \* history of the run, read by the properties only

vars == <<size, sameQueue, mem, gpu, pc, future, previous_frame_end, timer,
          minimized, flip, controller, msgs, camera, hist>>

(***************************************************************************)
(* The grid.                                                               *)
(***************************************************************************)
width == size[1]
height == size[2]
Cells == 0 .. (width * height - 1)
CellX(c) == c % width
CellY(c) == c \div width
Index(x, y) == y * width + x

AllDead == [c \in Cells |-> 0]
AllAlive == [c \in Cells |-> 1]
Grids == [Cells -> {0, 1}]

\* simulation.comp: a neighbour outside the grid counts as dead.
CellAt(g, x, y) ==
    IF x >= 0 /\ x < width /\ y >= 0 /\ y < height THEN g[Index(x, y)] ELSE 0

Offsets == {<<-1, -1>>, <<0, -1>>, <<1, -1>>, <<-1, 0>>,
            <<1, 0>>, <<-1, 1>>, <<0, 1>>, <<1, 1>>}

RECURSIVE SumOver(_, _, _, _)
SumOver(g, x, y, offs) ==
    IF offs = {} THEN 0
    ELSE LET o == CHOOSE o \in offs : TRUE
         IN  CellAt(g, x + o[1], y + o[2]) + SumOver(g, x, y, offs \ {o})

Neighbours(g, c) == SumOver(g, CellX(c), CellY(c), Offsets)

\* simulation.comp: the value one invocation writes for cell c, read from g.
Rule(g, c) ==
    LET n == Neighbours(g, c)
    IN  IF g[c] = 1 THEN (IF n = 2 \/ n = 3 THEN 1 ELSE 0)
        ELSE (IF n = 3 THEN 1 ELSE 0)

(***************************************************************************)
(* Simulation::new and Randomizer::new: the dispatch sizes.                *)
(***************************************************************************)
\* Mutant: the remainder tile is forgotten.
GroupCountFloor(n) == n \div WorkgroupEdge

GroupCount(n) == (n \div WorkgroupEdge) + (IF n % WorkgroupEdge # 0 THEN 1 ELSE 0)

\* simulation.rs:57-63.
group_size == <<GroupCount(width), GroupCount(height), 1>>

\* Mutant: one workgroup more whether or not there is a remainder.
RandomizerGroupCountOver(n) == (n \div WorkgroupEdge) + 1

\* randomizer.rs:71-77: one component of Randomizer's group_size.
RandomizerGroupCount(n) ==
    IF n % WorkgroupEdge # 0 THEN (n \div WorkgroupEdge) + 1 ELSE n \div WorkgroupEdge

\* randomizer.rs:71-77: Randomizer's field group_size.
randomizer_group_size ==
    <<RandomizerGroupCount(width), RandomizerGroupCount(height), 1>>

\* Some invocation of a dispatch of `gs` groups stands on cell c.
Covers(gs, c) ==
    CellX(c) < WorkgroupEdge * gs[1] /\ CellY(c) < WorkgroupEdge * gs[2]

\* The cells some invocation of a dispatch of `gs` groups stands on.
Covered(gs) == {c \in Cells : Covers(gs, c)}

(***************************************************************************)
(* Descriptor sets and recorded command buffers of Simulation::new.        *)
(* create_simulation_buffer binds output at 0 and input at 1; the shader   *)
(* writes binding 0 and reads binding 1.                                   *)
(***************************************************************************)
Binding0 == "output"
\* Mutant: the shader's input is bound to the live buffer as well.
BindingAliased == "output"

Binding1 == "input"

\* copy_buffer: CopyBufferInfo::buffers(output, input).
CopySource == "output"
CopyTarget == "input"
\* Mutant: source and destination swapped.
copy_reversed(m) == [m EXCEPT ![CopySource] = m[CopyTarget]]

\* Mutant: step() leaves the snapshot as it is.
copy_nothing(m) == m

copy_buffer(m) == [m EXCEPT ![CopyTarget] = m[CopySource]]

\* Mutant: the fill is recorded for the snapshot buffer.
clear_snapshot(m) == [m EXCEPT !["input"] = [c \in Cells |-> 0]]

\* clear_buffer: FillBufferInfo::dst_buffer(output), data 0 over the whole buffer.
clear_buffer(m) == [m EXCEPT !["output"] = [c \in Cells |-> 0]]

\* One invocation of main_buffer's dispatch.
Invoke(m, c) == [m EXCEPT ![Binding0][c] = Rule(m[Binding1], c)]

\* The whole dispatch, its invocations run in index order.
RECURSIVE InvokeAll(_, _)
InvokeAll(m, cells) ==
    IF cells = {} THEN m
    ELSE LET c == CHOOSE c \in cells : \A d \in cells : c <= d
         IN  InvokeAll(Invoke(m, c), cells \ {c})


(***************************************************************************)
(* The GPU: operations submitted and not yet finished.                     *)
(* kind: acquire (swapchain image), copy, evolve, seed, fill, toggle, draw, *)
(* gui, present.  deps: ids of the operations it still waits for.  push:   *)
(* its push constants, where a property reads them.  todo: the invocations *)
(* of a running dispatch that have not run yet.                            *)
(***************************************************************************)
Min(a, b) == IF a < b THEN a ELSE b

Ids(g) == {g[i].id : i \in 1 .. Len(g)}
FreshId(g) == CHOOSE i \in 0 .. Len(g) : i \notin Ids(g) /\ \A j \in 0 .. (i - 1) : j \in Ids(g)

Submit(g, kind, queue, deps) ==
    Append(g, [id |-> FreshId(g), kind |-> kind, queue |-> queue,
               deps |-> deps, run |-> FALSE, todo |-> {}, push |-> <<>>])
LastId(g) == g[Len(g)].id

OfKind(kinds) == {i \in 1 .. Len(gpu) : gpu[i].kind \in kinds}
Running(kinds) == {i \in OfKind(kinds) : gpu[i].run}

\* The operations that write the live buffer on the compute queue.
Writers == {"evolve", "seed", "fill"}

\* The hardware queue behind a queue handle.
Physical(q) == IF sameQueue /\ q # "none" THEN "queue" ELSE q

\* Submissions to one queue start in submission order, once their semaphores
\* and fences are signalled.
CanStart(i) ==
    /\ ~gpu[i].run
    /\ gpu[i].deps = {}
    /\ \A j \in 1 .. (i - 1) :
         (gpu[j].queue # "none" /\ Physical(gpu[j].queue) = Physical(gpu[i].queue))
            => gpu[j].run

\* Mutant: the flip is dispatched as two workgroups.
FlipGroupsTwo == <<2, 1, 1>>

\* flipper.rs:110: dispatch([1, 1, 1]).
FlipGroups == <<1, 1, 1>>

\* flip.comp: the invocations of a dispatch of `gs` workgroups, one to a
\* workgroup, named by gl_WorkGroupID.
FlipInvocations(gs) ==
    (0 .. (gs[1] - 1)) \X (0 .. (gs[2] - 1)) \X (0 .. (gs[3] - 1))

\* The buffer Flipper::new is given for binding 0: the live buffer.
FlipBuffer == "output"

\* flip.comp: one invocation inverts the cell at the pushed position.
FlipCell(m, position) ==
    [m EXCEPT ![FlipBuffer][Index(position[1], position[2])] = 1 - @]

\* An operation begins.  `whole`: the evolution dispatch runs all of its
\* invocations at once, in index order; otherwise they run one by one.
GpuStart(i, whole) ==
    /\ i \in 1 .. Len(gpu)
    /\ CanStart(i)
    /\ IF gpu[i].kind = "evolve" /\ whole
       THEN /\ gpu' = [gpu EXCEPT ![i].run = TRUE]
            /\ mem' = InvokeAll(mem, Covered(group_size))
       ELSE /\ gpu' = [gpu EXCEPT ![i].run = TRUE,
                                  ![i].todo =
                                      CASE gpu[i].kind = "evolve" -> Covered(group_size)
                                        [] gpu[i].kind = "toggle" -> FlipInvocations(FlipGroups)
                                        [] OTHER -> {}]
            /\ mem' = mem
    /\ UNCHANGED <<size, sameQueue, pc, future, previous_frame_end, timer,
                   minimized, flip, controller, msgs, camera, hist>>

\* One invocation of the evolution dispatch or of the flip, in any order.
GpuInvoke(i, c) ==
    /\ i \in 1 .. Len(gpu)
    /\ gpu[i].run
    /\ c \in gpu[i].todo
    /\ gpu' = [gpu EXCEPT ![i].todo = @ \ {c}]
    /\ mem' = IF gpu[i].kind = "toggle" THEN FlipCell(mem, gpu[i].push)
              ELSE Invoke(mem, c)
    /\ UNCHANGED <<size, sameQueue, pc, future, previous_frame_end, timer,
                   minimized, flip, controller, msgs, camera, hist>>

\* The list without its i-th operation, whose id no longer blocks anything.
Retire(g, i) ==
    [j \in 1 .. (Len(g) - 1) |->
        LET o == IF j < i THEN g[j] ELSE g[j + 1]
        IN  [o EXCEPT !.deps = @ \ {g[i].id}]]

\* How far the writes of the live buffer have come through the sequence
\* fill, seed, fill: 0 to 3.
Noted(w, kind) ==
    CASE kind = "fill" /\ w = 2 -> 3
      [] kind = "fill" -> 1
      [] kind = "seed" /\ w = 1 -> 2
      [] OTHER -> 0

\* An operation finishes.  A copy, a fill and a seed take effect here; the
\* seed writes what randomizer.comp computes from its seed: any content.
GpuFinish(i, seeded) ==
    /\ i \in 1 .. Len(gpu)
    /\ gpu[i].run
    /\ gpu[i].todo = {}
    /\ seeded \in Grids
    /\ (gpu[i].kind # "seed") => seeded = AllDead
    /\ mem' = CASE gpu[i].kind = "copy" -> copy_buffer(mem)
                [] gpu[i].kind = "fill" -> clear_buffer(mem)
                [] gpu[i].kind = "seed" ->
                     [mem EXCEPT !["output"] =
                        [c \in Cells |-> IF Covers(randomizer_group_size, c)
                                         THEN seeded[c] ELSE @[c]]]
                [] OTHER -> mem
    /\ gpu' = Retire(gpu, i)
    /\ future' = future \ {gpu[i].id}
    /\ previous_frame_end' = previous_frame_end \ {gpu[i].id}
    /\ hist' = CASE gpu[i].kind = "evolve" ->
                      [hist EXCEPT !.stepDone = TRUE,
                                   !.evolved = TRUE,
                                   !.steps = Min(@ + 1, MaxSteps),
                                   !.writes = Noted(@, "evolve")]
                 [] gpu[i].kind \in {"seed", "fill"} ->
                      [hist EXCEPT !.stepDone = FALSE,
                                   !.writes = Noted(@, gpu[i].kind)]
                 [] gpu[i].kind = "toggle" ->
                      [hist EXCEPT !.flipDone = TRUE]
                 [] OTHER -> hist
    /\ UNCHANGED <<size, sameQueue, pc, timer, minimized, flip, controller,
                   msgs, camera>>

(***************************************************************************)
(* Camera (src/src/camera.rs).  The f32 and f64 values are exact rationals *)
(* <<numerator, denominator>> in lowest terms with a positive denominator; *)
(* rounding of the floating-point operations is not modelled.              *)
(***************************************************************************)
Abs(a) == IF a < 0 THEN -a ELSE a

RECURSIVE Gcd(_, _)
Gcd(a, b) == IF b = 0 THEN a ELSE Gcd(b, a % b)

Q(n, d) ==
    LET g == Gcd(Abs(n), Abs(d))
        sg == IF d < 0 THEN -1 ELSE 1
    IN  <<sg * (n \div g), sg * (d \div g)>>

Whole(n) == <<n, 1>>
\* Sums over the least common denominator and products reduced crosswise
\* keep the intermediate integers small.
QAdd(a, b) ==
    LET g == Gcd(a[2], b[2])
    IN  Q(a[1] * (b[2] \div g) + b[1] * (a[2] \div g), (a[2] \div g) * b[2])
QSub(a, b) == QAdd(a, <<-b[1], b[2]>>)
QMul(a, b) ==
    LET g == Gcd(Abs(a[1]), b[2])
        k == Gcd(Abs(b[1]), a[2])
    IN  Q((a[1] \div g) * (b[1] \div k), (a[2] \div k) * (b[2] \div g))
QDiv(a, b) == QMul(a, Q(b[2], b[1]))
QLess(a, b) == QSub(a, b)[1] < 0
\* Mutant: no clamp.
QUnclamped(a, lo, hi) == a

\* f32::clamp.
QClamp(a, lo, hi) == IF QLess(a, lo) THEN lo ELSE IF QLess(hi, a) THEN hi ELSE a
\* f64::signum: 1.0 for zero and above, -1.0 below.
QSignum(a) == IF a[1] < 0 THEN Whole(-1) ELSE Whole(1)

\* `as u32` of an f64: towards zero, a negative value giving 0.  (The cast
\* also saturates at the largest u32, which no value of the model comes near.)
AsU32(a) == IF a[1] < 0 THEN 0 ELSE a[1] \div a[2]

\* camera.rs:7.
SCALE_FACTOR == Q(1, 10)
\* Mutant: the lower end of the zoom range is 0.
ScaleMinZero == Whole(0)

\* camera.rs:78.
ScaleMin == Q(1, 2)
ScaleMax == Whole(1000)

\* Camera::new.
CameraNew(game_size, screen_size) ==
    LET game_ratio == Q(game_size[1], game_size[2])
        screen_ratio == Q(screen_size[1], screen_size[2])
    IN  [scale |-> Whole(1),
         ratio |-> QDiv(game_ratio, screen_ratio),
         moving |-> FALSE,
         game_ratio |-> game_ratio,
         translation |-> [x |-> Whole(0), y |-> Whole(0)],
         game_size |-> game_size,
         screen_size |-> <<Whole(screen_size[1]), Whole(screen_size[2])>>,
         cursor_pos |-> [x |-> Whole(0), y |-> Whole(0)]]

\* Mutant: the new size is stored and the ratio is left as it was.
CameraResizedStale(cam, e) ==
    IF e.height # 0 /\ e.width # 0
    THEN [cam EXCEPT !.screen_size = <<Whole(e.width), Whole(e.height)>>]
    ELSE cam

\* Camera::update, camera.rs:47-55.
CameraResized(cam, e) ==
    IF e.height # 0 /\ e.width # 0
    THEN LET screen == <<Whole(e.width), Whole(e.height)>>
         IN  [cam EXCEPT !.screen_size = screen,
                         !.ratio = QDiv(cam.game_ratio, QDiv(screen[1], screen[2]))]
    ELSE cam

\* Camera::update, camera.rs:56-67.
CameraCursorMoved(cam, e) ==
    LET dx == QDiv(QMul(QSub(e.position.x, cam.cursor_pos.x), Whole(2)),
                   cam.screen_size[1])
        dy == QDiv(QMul(QSub(e.position.y, cam.cursor_pos.y), Whole(2)),
                   cam.screen_size[2])
        tx == QAdd(cam.translation.x, QDiv(dx, cam.scale))
        ty == QAdd(cam.translation.y, QDiv(dy, QDiv(cam.scale, cam.ratio)))
        moved == [x |-> QClamp(tx, Whole(-1), Whole(1)),
                  y |-> QClamp(ty, Whole(-1), Whole(1))]
    IN  [cam EXCEPT !.translation = IF cam.moving THEN moved ELSE @,
                    !.cursor_pos = e.position]

\* Camera::update, camera.rs:68-79.  e.line: LineDelta(_, e.dy), else
\* PixelDelta with delta.y = e.dy.
CameraMouseWheel(cam, e) ==
    LET by == IF e.line THEN e.dy ELSE QSignum(e.dy)
        scaled == QAdd(cam.scale, QMul(QMul(by, SCALE_FACTOR), cam.scale))
    IN  [cam EXCEPT !.scale = QClamp(scaled, ScaleMin, ScaleMax)]

\* Mutant: every button drags.
CameraMouseInputAny(cam, e) == [cam EXCEPT !.moving = (e.state = "Pressed")]

\* Camera::update, camera.rs:80-84.
CameraMouseInput(cam, e) ==
    IF e.button = "Left" THEN [cam EXCEPT !.moving = (e.state = "Pressed")] ELSE cam

\* Camera::update.
CameraUpdate(cam, e) ==
    CASE e.type = "Resized" -> CameraResized(cam, e)
      [] e.type = "CursorMoved" -> CameraCursorMoved(cam, e)
      [] e.type = "MouseWheel" -> CameraMouseWheel(cam, e)
      [] e.type = "MouseInput" -> CameraMouseInput(cam, e)
      [] OTHER -> cam

\* Mutant: from_translation(t) * from_scale(..), the translation not scaled.
matrix_translated_last(cam) ==
    [xx |-> cam.scale, yy |-> QDiv(cam.scale, cam.ratio),
     wx |-> cam.translation.x, wy |-> cam.translation.y]

\* Camera::matrix: from_scale(scale, scale / ratio, 1) * from_translation(t).
\* xx and yy are the diagonal, wx and wy the translation column.
matrix(cam) ==
    LET sx == cam.scale
        sy == QDiv(cam.scale, cam.ratio)
    IN  [xx |-> sx, yy |-> sy,
         wx |-> QMul(sx, cam.translation.x), wy |-> QMul(sy, cam.translation.y)]

\* Camera::cursor_game_position.
cursor_game_position(cam) ==
    LET w == Whole(cam.game_size[1])
        h == Whole(cam.game_size[2])
        x0 == QSub(cam.cursor_pos.x, QDiv(cam.screen_size[1], Whole(2)))
        x1 == QDiv(x0, QMul(cam.screen_size[1], cam.scale))
        y0 == QSub(cam.cursor_pos.y, QDiv(cam.screen_size[2], Whole(2)))
        y1 == QDiv(y0, QMul(cam.screen_size[2], cam.scale))
        y2 == QMul(y1, cam.ratio)
        x3 == QAdd(x1, QDiv(cam.translation.x, Whole(-2)))
        y3 == QAdd(y2, QDiv(cam.translation.y, Whole(-2)))
        x4 == QAdd(QMul(x3, w), QDiv(w, Whole(2)))
        y4 == QAdd(QMul(y3, h), QDiv(h, Whole(2)))
    IN  <<AsU32(x4), AsU32(y4)>>

\* presenter.frag: the point of the quad [-1, 1] x [-1, 1] that shows the
\* centre of cell (x, y), the quad showing the whole grid.
QuadPoint(cam, x, y) ==
    [x |-> QSub(Q(2 * x + 1, cam.game_size[1]), Whole(1)),
     y |-> QSub(Q(2 * y + 1, cam.game_size[2]), Whole(1))]

\* presenter.vert: the vertex stage applies the pushed matrix to the quad.
Transform(cam, p) ==
    LET m == matrix(cam)
    IN  [x |-> QAdd(QMul(m.xx, p.x), m.wx), y |-> QAdd(QMul(m.yy, p.y), m.wy)]

\* Presenter::draw, set_viewport: clip space [-1, 1] onto the window, origin
\* at pixel (0, 0).
Viewport(cam, clip) ==
    [x |-> QMul(QDiv(QAdd(clip.x, Whole(1)), Whole(2)), cam.screen_size[1]),
     y |-> QMul(QDiv(QAdd(clip.y, Whole(1)), Whole(2)), cam.screen_size[2])]

\* The pixel at which cell (x, y) is rendered.
Forward(cam, x, y) == Viewport(cam, Transform(cam, QuadPoint(cam, x, y)))

(***************************************************************************)
(* The driver: GameOfLife::run.                                            *)
(***************************************************************************)
\* Mutant: only the oldest entry is looked at.
DropOldest(q) ==
    IF q = <<>> THEN q
    ELSE IF q[1] < Second THEN q ELSE Tail(q)

\* lib.rs:152-157: entries are popped from the front while they are a second
\* old or older; the first younger one is pushed back and ends the loop.
RECURSIVE DropOld(_)
DropOld(q) ==
    IF q = <<>> THEN q
    ELSE IF q[1] < Second THEN q ELSE DropOld(Tail(q))

Aged(q, dt) == [k \in 1 .. Len(q) |-> Min(q[k] + dt, Saturate)]

\* Mutant: speed 0 is taken for a step being due.
StepDueAtZero(speed, elapsed) == speed = 0 \/ elapsed > Second \div speed

\* Mutant: the comparison is not strict.
StepDueAtLeast(speed, elapsed) == speed > 0 /\ elapsed >= Second \div speed

\* lib.rs:160.
StepDue(speed, elapsed) == speed > 0 /\ elapsed > Second \div speed

\* Mutant: present(future, false).
PresentNoWait == FALSE

\* renderer.present(future, true): the driver blocks on the frame's fence.
PresentWait == TRUE

\* Controller::draw: the panel run for one frame.  ui.speed and ui.grid are
\* what the slider and the checkbox leave; a clicked button sends its Message.
Clicks(ui) == IF ui.click = "none" THEN <<>> ELSE <<ui.click>>

\* lib.rs:164-177: record and chain the draw, the panel and the present, then
\* flush and wait.  The draw is recorded with `flip` (lib.rs:166).  g and fut are the GPU and the future the frame has so far.
DrawFrame(g, fut, ctl, ui) ==
    LET g1 == [Submit(g, "draw", "graphics", fut) EXCEPT ![Len(g) + 1].push = <<flip>>]
        g2 == Submit(g1, "gui", "graphics", {LastId(g1)})
        g3 == Submit(g2, "present", "graphics", {LastId(g2)})
    IN  /\ Len(g3) <= MaxOps
        /\ gpu' = g3
        /\ future' = {LastId(g3)}
        /\ controller' = [ctl EXCEPT !.speed = ui.speed, !.grid = ui.grid]
        /\ msgs' = msgs \o Clicks(ui)
        /\ pc' = "present_wait"

\* Simulation::step up to its fence wait: the copy runs after `fut`.
StepCopy(g, fut) == Submit(g, "copy", "compute", fut)

\* The ages of the run's history after dt more milliseconds: since, the time
\* since the last step (or since run() began); awakeSince, the part of it
\* the window was not minimized for.  The interval before a frame counts as
\* minimized when the window was minimized at the frame before.
Passed(h, dt) ==
    [h EXCEPT !.since = Min(@ + dt, Saturate),
              !.awakeSince = IF h.dozed THEN @ ELSE Min(@ + dt, Saturate),
              !.dozed = minimized,
              !.stamps = {Min(a + dt, Saturate) : a \in @}]

\* The history of a frame that reaches the pacing test with `speed`; its
\* time is recorded.
Tested(h, speed) ==
    [h EXCEPT !.elapsed = h.since, !.awake = h.awakeSince, !.speed = speed,
              !.stamps = @ \cup {0}]

\* Mutant: the frame's time enters the window before the acquire.
UnacquiredStamped(q, dt) == DropOld(Append(Aged(q, dt), 0))

\* lib.rs:144-147: the frame returns at the failed acquire, before lib.rs:149
\* takes the time; the window keeps its entries, seen dt later.
Unacquired(q, dt) == Aged(q, dt)

\* The history of a frame that returns at the failed acquire.
Abandoned(h) ==
    [h EXCEPT !.abandoned = h.tallied /\ ~@,
              !.carried = h.tallied /\ flip]

\* lib.rs:140-163.  dt: the time since the previous MainEventsCleared.  The
\* event loop emits MainEventsCleared once the pending events are handled.
MainEventsCleared(dt, acquired, ui) ==
    /\ pc = "idle"
    /\ msgs = <<>>
    /\ \/ /\ minimized \/ ~acquired
          /\ timer' = Min(timer + dt, Saturate)
          /\ controller' = [controller EXCEPT
                               !.fps_counter = IF minimized THEN Aged(@, dt)
                                               ELSE Unacquired(@, dt)]
          /\ hist' = IF minimized THEN Passed(hist, dt)
                     ELSE Abandoned(Passed(hist, dt))
          /\ UNCHANGED <<size, sameQueue, mem, gpu, pc, future,
                         previous_frame_end, minimized, flip, msgs, camera>>
       \/ /\ ~minimized /\ acquired
          /\ LET g1 == Submit(gpu, "acquire", "none", {})
                 fut == previous_frame_end \cup {LastId(g1)}
                 elapsed == Min(timer + dt, Saturate)
                 ctl == [controller EXCEPT
                            !.fps_counter = DropOld(Append(Aged(@, dt), 0))]
                 h == Tested(Passed(hist, dt), ctl.speed)
             IN  /\ previous_frame_end' = {}
                 /\ IF StepDue(ctl.speed, elapsed)
                    THEN /\ timer' = 0
                         /\ gpu' = StepCopy(g1, fut)
                         /\ Len(gpu') <= MaxOps
                         /\ future' = {LastId(gpu')}
                         /\ pc' = "step_wait"
                         /\ controller' = ctl
                         /\ msgs' = msgs
                         /\ hist' = [h EXCEPT !.stepPre = mem["output"],
                                              !.stale = mem["input"] # mem["output"],
                                              !.stepDone = FALSE,
                                              !.stepped = TRUE,
                                              !.since = 0,
                                              !.awakeSince = 0]
                    ELSE /\ timer' = elapsed
                         /\ DrawFrame(g1, fut, ctl, ui)
                         /\ hist' = h
          /\ UNCHANGED <<size, sameQueue, mem, minimized, flip, camera>>

\* Mutant: the copy is flushed and its fence is not waited for.
CopyUnfenced == TRUE

\* simulation.rs:121-124: then_signal_fence_and_flush().wait(None) returns
\* once the copy has finished.
CopyFenced == future = {}

\* Mutant: step() returns a future that does not cover the evolution.
StepFutureNow(g) == {}

\* simulation.rs:125-131: what step() returns, the semaphore future of the
\* evolution just submitted (the last operation of g).
StepFuture(g) == {LastId(g)}

\* simulation.rs:125-131 and lib.rs:164-177: the copy's fence is signalled;
\* the evolution is executed with no dependency and its semaphore future is
\* what the draw is chained on.
StepResume(ui) ==
    /\ pc = "step_wait"
    /\ CopyFenced
    /\ LET g1 == Submit(gpu, "evolve", "compute", {})
       IN  DrawFrame(g1, StepFuture(g1), controller, ui)
    /\ UNCHANGED <<size, sameQueue, mem, previous_frame_end, timer, minimized,
                   flip, camera, hist>>

\* lib.rs:177-178: present returns; the renderer keeps the frame's fence future.
FrameEnd ==
    /\ pc = "present_wait"
    /\ PresentWait => future = {}
    /\ previous_frame_end' = future
    /\ future' = {}
    /\ flip' = FALSE
    /\ pc' = "idle"
    /\ hist' = [hist EXCEPT !.stepPre = AllDead, !.stepDone = FALSE,
                            !.stale = FALSE,
                            !.carried = FALSE,
                            !.stepped = FALSE, !.elapsed = 0, !.awake = 0,
                            !.speed = 0, !.presses = 0]
    /\ UNCHANGED <<size, sameQueue, mem, gpu, timer, minimized, controller,
                   msgs, camera>>

\* lib.rs:124-131, Randomizer::run.
OnRandomize ==
    /\ pc = "idle"
    /\ msgs # <<>> /\ Head(msgs) = "Randomize"
    /\ Len(gpu) < MaxOps
    /\ msgs' = Tail(msgs)
    /\ gpu' = Submit(gpu, "seed", "compute", {})
    /\ future' = {LastId(gpu')}
    /\ pc' = "randomize_wait"
    /\ UNCHANGED <<size, sameQueue, mem, previous_frame_end, timer, minimized,
                   flip, controller, camera, hist>>

\* Mutant: Clear is handled only while the window is not minimized.
OnClearAwake ==
    /\ pc = "idle"
    /\ ~minimized
    /\ msgs # <<>> /\ Head(msgs) = "Clear"
    /\ Len(gpu) < MaxOps
    /\ msgs' = Tail(msgs)
    /\ gpu' = Submit(gpu, "fill", "compute", {})
    /\ future' = {LastId(gpu')}
    /\ pc' = "clear_wait"
    /\ UNCHANGED <<size, sameQueue, mem, previous_frame_end, timer, minimized,
                   flip, controller, msgs, camera, hist>>

\* lib.rs:132-139, Simulation::clear.
OnClear ==
    /\ pc = "idle"
    /\ msgs # <<>> /\ Head(msgs) = "Clear"
    /\ Len(gpu) < MaxOps
    /\ msgs' = Tail(msgs)
    /\ gpu' = Submit(gpu, "fill", "compute", {})
    /\ future' = {LastId(gpu')}
    /\ pc' = "clear_wait"
    /\ UNCHANGED <<size, sameQueue, mem, previous_frame_end, timer, minimized,
                   flip, controller, camera, hist>>

\* A submission, a flush or a fence wait of step() or of a message handler
\* returns an error: its .expect panics (simulation.rs:119-124, lib.rs:128-130
\* and lib.rs:136-138) and the process ends.
ExpectFails ==
    /\ pc \in {"step_wait", "randomize_wait", "clear_wait"}
    /\ pc' = "panicked"
    /\ hist' = [hist EXCEPT !.failed = TRUE]
    /\ UNCHANGED <<size, sameQueue, mem, gpu, future, previous_frame_end, timer,
                   minimized, flip, controller, msgs, camera>>

\* lib.rs:177-178: the fence wait inside renderer.present(future, true)
\* returns an error.  present() returns nothing to run(): the renderer
\* reports the error, keeps the frame's future and returns, and run() goes on
\* to the next event.
PresentFails ==
    /\ pc = "present_wait"
    /\ future # {}
    /\ previous_frame_end' = future
    /\ future' = {}
    /\ flip' = FALSE
    /\ pc' = "idle"
    /\ hist' = [hist EXCEPT !.stepPre = AllDead, !.stepDone = FALSE,
                            !.stale = FALSE,
                            !.carried = FALSE,
                            !.stepped = FALSE, !.elapsed = 0, !.awake = 0,
                            !.speed = 0, !.presses = 0,
                            !.failed = TRUE]
    /\ UNCHANGED <<size, sameQueue, mem, gpu, timer, minimized, controller,
                   msgs, camera>>

\* Mutant: the handlers flush and do not wait.
MessageUnfenced == TRUE

\* lib.rs:129 and lib.rs:137: then_signal_fence_and_flush().wait(None)
\* returns once the seed or the fill has finished.
MessageFenced == future = {}

\* lib.rs:124-139: the handler of Randomize or Clear returns.
MessageDone ==
    /\ pc \in {"randomize_wait", "clear_wait"}
    /\ MessageFenced
    /\ pc' = "idle"
    /\ UNCHANGED <<size, sameQueue, mem, gpu, future, previous_frame_end, timer,
                   minimized, flip, controller, msgs, camera, hist>>

\* Mutant: only a window with no width and no height counts as minimized.
MinimizesBoth(e) == e.height = 0 /\ e.width = 0

\* lib.rs:110.
Minimizes(e) == e.height = 0 \/ e.width = 0

\* Mutant: a release of the right button asks for a toggle as well.
RaisesOnRelease(e) == e.type = "MouseInput" /\ e.button = "Right"

\* lib.rs:118-122.
Raises(e) ==
    e.type = "MouseInput" /\ e.button = "Right" /\ e.state = "Pressed"

\* Mutant: the panel's answer is not looked at.
ReachesAlways(consumed) == TRUE

\* lib.rs:105-107: the handler returns when Controller::update returns true.
Reaches(consumed) == ~consumed

\* The history after one more window event.
Counted(h, consumed) ==
    [h EXCEPT !.events = Min(@ + 1, MaxEvents),
              !.consumed = (h.events < MaxEvents) /\ consumed]

\* lib.rs:104-123.  consumed: what Controller::update (the panel) returns.
WindowEvent(e, consumed) ==
    /\ pc = "idle"
    /\ IF ~Reaches(consumed)
       THEN /\ UNCHANGED <<camera, minimized, flip>>
            /\ hist' = Counted(hist, consumed)
       ELSE /\ camera' = CameraUpdate(camera, e)
            /\ minimized' = IF e.type = "Resized" THEN Minimizes(e) ELSE minimized
            /\ flip' = IF Raises(e) THEN TRUE ELSE flip
            /\ hist' = [Counted(hist, consumed) EXCEPT
                            !.zeroSized = IF e.type = "Resized"
                                          THEN (e.width = 0 \/ e.height = 0)
                                          ELSE @,
                            !.presses =
                                IF e.type = "MouseInput" /\ e.state = "Pressed"
                                      /\ e.button = "Right"
                                THEN Min(@ + 1, 2) ELSE @,
                            !.lastLeft = IF e.type = "MouseInput" /\ e.button = "Left"
                                         THEN e.state ELSE @,
                            !.cursor = IF e.type = "CursorMoved"
                                       THEN e.position ELSE @]
    /\ UNCHANGED <<size, sameQueue, mem, gpu, pc, future, previous_frame_end,
                   timer, controller, msgs>>

\* Flipper::flip (flipper.rs:89-121): the dispatch is recorded with its
\* position, executed on the compute queue and flushed; the fence future is
\* returned.  The caller holds no unfinished future when it calls.
Flip(position) ==
    /\ pc = "idle"
    /\ future = {}
    /\ gpu' = [Submit(gpu, "toggle", "compute", {}) EXCEPT ![Len(gpu) + 1].push = position]
    /\ future' = {LastId(gpu')}
    /\ hist' = [hist EXCEPT !.flipPre = mem, !.flipAt = position,
                            !.flipDone = FALSE]
    /\ UNCHANGED <<size, sameQueue, mem, pc, previous_frame_end, timer,
                   minimized, flip, controller, msgs, camera>>

\* lib.rs:100-103.
CloseRequested ==
    /\ pc = "idle"
    /\ pc' = "exit"
    /\ UNCHANGED <<size, sameQueue, mem, gpu, future, previous_frame_end, timer,
                   minimized, flip, controller, msgs, camera, hist>>

(***************************************************************************)
(* Construction: GameOfLife::new.                                          *)
(***************************************************************************)
\* stepPre, stepDone, stepped: the live content when the frame's step() was
\* called, whether its evolution has finished, whether the frame stepped.
\* stale: the snapshot differed from the live content when that step() was
\* called.
\* tallied: the frames that return at a failed acquire are kept track of.
\* abandoned: the parity of their number (tallied).  carried: the toggle
\* request was pending when the last of them returned, no frame having been
\* presented since (tallied).
\* writes: see Noted.  evolved: an evolution has finished since construction.
\* since, awakeSince, dozed: see Passed.  elapsed, awake, speed: since,
\* awakeSince and the speed at the pacing test of the frame under way.
\* zeroSized: the last resize event run() handled had a dimension of zero.
\* stamps: the ages of the times of all frames that reached lib.rs:149
\* (not counted: as if one had, long ago).
\* presses: right-button presses that reached run()'s test since the last
\* frame was presented (2: two or more).
\* consumed: the last window event counted in `events` was consumed by the
\* panel.
\* lastLeft: the state of the last left-button event that reached the camera.
\* cursor: the position of the last cursor event that reached the camera.
\* failed: a submission, flush or wait has failed.
\* flipPre, flipAt, flipDone: both buffers when flip() was last called, its
\* position, whether that flip has finished.
\* steps: evolutions finished since construction (MaxSteps: that many or
\* more, or not counted).  origin: the live content at construction.  events: window
\* events handled (MaxEvents: that many or more, or not counted).
HistInit(counted) ==
    [stepPre |-> AllDead, stepDone |-> FALSE, stepped |-> FALSE,
     stale |-> FALSE,
     tallied |-> FALSE, abandoned |-> FALSE, carried |-> FALSE,
     steps |-> IF counted THEN 0 ELSE MaxSteps,
     events |-> IF counted THEN 0 ELSE MaxEvents,
     writes |-> 0,
     evolved |-> FALSE,
     since |-> 0, awakeSince |-> 0, dozed |-> FALSE,
     elapsed |-> 0, awake |-> 0, speed |-> 0,
     zeroSized |-> FALSE,
     flipPre |-> [b \in {"output", "input"} |-> AllDead],
     flipAt |-> <<0, 0>>, flipDone |-> FALSE,
     failed |-> FALSE,
     lastLeft |-> "none",
     consumed |-> FALSE,
     presses |-> 0,
     stamps |-> IF counted THEN {} ELSE {Saturate},
     cursor |-> [x |-> <<0, 1>>, y |-> <<0, 1>>],
     origin |-> IF counted THEN mem["output"] ELSE AllDead]

\* The Option<u32> of refresh_rate_millihertz: None when there is no monitor
\* or the monitor reports no rate, kept as a value no u32 has.
None == -1

\* Controller::new: max_speed from the first monitor's refresh rate in
\* millihertz.
MaxSpeedOf(monitor) == (IF monitor = None THEN 60000 ELSE monitor) \div 1000

\* Everything but the configuration and the content of the two buffers,
\* which create_gpu_buffer leaves undefined.
Built(monitor, window, h) ==
    /\ gpu = <<>>
    /\ pc = "idle"
    /\ future = {}
    /\ previous_frame_end = {}
    /\ timer = 0
    /\ minimized = FALSE
    /\ flip = FALSE
    /\ controller = [grid |-> FALSE, speed |-> InitialSpeed,
                     max_speed |-> MaxSpeedOf(monitor), fps_counter |-> <<>>]
    /\ msgs = <<>>
    /\ camera = CameraNew(size, window)
    /\ hist = h

Constructed(monitor, window, counted) ==
    Built(monitor, window, HistInit(counted))

(***************************************************************************)
(* Spec: the driver and the GPU on small grids, the evolution dispatch     *)
(* running invocation by invocation.                                       *)
(***************************************************************************)
Sizes == {s \in (1 .. MaxCells) \X (1 .. MaxCells) : s[1] * s[2] <= MaxCells}

Init ==
    /\ size \in Sizes
    /\ sameQueue \in BOOLEAN
    /\ mem \in [{"output", "input"} -> {AllDead, AllAlive}]
    /\ Constructed(60000, <<4, 2>>, FALSE)

\* What the panel may leave in one frame.
Panel ==
    {[speed |-> s, grid |-> controller.grid, click |-> c] :
        s \in {0, controller.max_speed},
        c \in {"none", "Randomize", "Clear"}}

Deltas == {Saturate}

\* The window events of Spec: minimize and restore.
Events ==
    {[type |-> "Resized", width |-> 0, height |-> 2],
     [type |-> "Resized", width |-> 4, height |-> 2]}

Next ==
    \/ \E e \in Events, consumed \in BOOLEAN : WindowEvent(e, consumed)
    \/ \E dt \in Deltas, a \in BOOLEAN, ui \in Panel : MainEventsCleared(dt, a, ui)
    \/ \E ui \in Panel : StepResume(ui)
    \/ FrameEnd
    \/ OnRandomize
    \/ OnClear
    \/ MessageDone
    \/ CloseRequested
    \/ \E i \in 1 .. Len(gpu) : GpuStart(i, FALSE)
    \/ \E i \in 1 .. Len(gpu) : \E c \in gpu[i].todo : GpuInvoke(i, c)
    \/ \E i \in 1 .. Len(gpu) : \E g \in Grids : GpuFinish(i, g)

Spec == Init /\ [][Next]_vars

(***************************************************************************)
(* SpecCamera: the camera under window events, at most MaxEvents of them.  *)
(***************************************************************************)
Windows == {<<4, 2>>, <<2, 2>>}
CameraSizes == {<<2, 1>>, <<3, 2>>}

InitCamera ==
    /\ size \in CameraSizes
    /\ sameQueue = FALSE
    /\ mem = [b \in {"output", "input"} |-> AllDead]
    /\ \E window \in Windows : Constructed(60000, window, TRUE)

Pixels == {[x |-> Whole(px), y |-> Whole(py)] : px \in {0, 1, 3, 4}, py \in {0, 2}}

CameraEvents ==
    {[type |-> "Resized", width |-> w, height |-> h] :
        w \in {0, 2, 4}, h \in {0, 2}}
    \cup {[type |-> "CursorMoved", position |-> p] : p \in Pixels}
    \cup {[type |-> "MouseWheel", line |-> l, dy |-> Whole(d)] :
        l \in BOOLEAN, d \in {-20, -1, 1, 20000}}
    \cup {[type |-> "MouseInput", state |-> st, button |-> b] :
        st \in {"Pressed", "Released"}, b \in {"Left", "Right"}}

NextCamera ==
    /\ hist.events < MaxEvents
    /\ \E e \in CameraEvents, consumed \in BOOLEAN : WindowEvent(e, consumed)

SpecCamera == InitCamera /\ [][NextCamera]_vars

(***************************************************************************)
(* SpecRule: step() as a function of the grid.  The initial content is the *)
(* input; frames step it at most MaxSteps times; the evolution dispatch    *)
(* runs as a whole.                                                        *)
(***************************************************************************)
RuleSizes == (1 .. MaxWidth) \X (1 .. MaxHeight)

\* The grid whose live cells are a row of n cells starting at (x, y).
Row(x, y, n) ==
    [c \in Cells |-> IF CellY(c) = y /\ CellX(c) >= x /\ CellX(c) < x + n
                     THEN 1 ELSE 0]

Rows ==
    {Row(x, y, n) : x \in 0 .. (width - 1), y \in 0 .. (height - 1),
                    n \in 0 .. MaxRun}

InitRule ==
    /\ size \in RuleSizes
    /\ sameQueue = FALSE
    /\ mem \in {[output |-> g, input |-> junk] :
                    g \in IF width * height <= MaxDense THEN Grids ELSE Rows,
                    junk \in {AllDead, AllAlive}}
    /\ Constructed(60000, <<4, 2>>, TRUE)

\* The panel left alone.
Untouched ==
    [speed |-> controller.speed, grid |-> controller.grid, click |-> "none"]

NextRule ==
    \/ /\ hist.steps < MaxSteps
       /\ \E a \in BOOLEAN : MainEventsCleared(Saturate, a, Untouched)
    \/ StepResume(Untouched)
    \/ FrameEnd
    \/ \E i \in 1 .. Len(gpu) : GpuStart(i, TRUE)
    \/ \E i \in 1 .. Len(gpu) : GpuFinish(i, AllDead)

SpecRule == InitRule /\ [][NextRule]_vars

(***************************************************************************)
(* SpecPace: the pacing of steps on a grid of one cell, for several        *)
(* monitors, frame times and speeds, with the window minimized and         *)
(* restored.                                                               *)
(***************************************************************************)
\* refresh_rate_millihertz of the first monitor.
Monitors == {None, 59940, 144000}

\* The time between one MainEventsCleared and the next, in milliseconds.
PaceDeltas == {250, 500, Saturate}

InitPace ==
    /\ size = <<1, 1>>
    /\ sameQueue = FALSE
    /\ mem = [b \in {"output", "input"} |-> AllDead]
    /\ \E monitor \in Monitors : Constructed(monitor, <<4, 2>>, FALSE)

\* What the panel may leave in one frame: the slider dragged to a low speed,
\* or not touched, the value being left as it is or brought into the
\* slider's range.
PacePanel ==
    {[speed |-> s, grid |-> controller.grid, click |-> "none"] :
        s \in {0, 1, 2, controller.speed,
               Min(controller.speed, controller.max_speed)}}

NextPace ==
    \/ \E e \in Events, consumed \in BOOLEAN : WindowEvent(e, consumed)
    \/ \E dt \in PaceDeltas, a \in BOOLEAN, ui \in PacePanel :
          MainEventsCleared(dt, a, ui)
    \/ \E ui \in PacePanel : StepResume(ui)
    \/ FrameEnd
    \/ \E i \in 1 .. Len(gpu) : GpuStart(i, TRUE)
    \/ \E i \in 1 .. Len(gpu) : GpuFinish(i, AllDead)

SpecPace == InitPace /\ [][NextPace]_vars

(***************************************************************************)
(* SpecFlip: Flipper::flip on small grids of any content, one cell after   *)
(* another.                                                                *)
(***************************************************************************)
InitFlip ==
    /\ size \in Sizes
    /\ sameQueue = FALSE
    /\ mem \in [{"output", "input"} -> Grids]
    /\ Constructed(60000, <<4, 2>>, FALSE)

\* The positions of the grid's cells.
Positions == (0 .. (width - 1)) \X (0 .. (height - 1))

NextFlip ==
    \/ \E position \in Positions : Flip(position)
    \/ \E i \in 1 .. Len(gpu) : GpuStart(i, FALSE)
    \/ \E i \in 1 .. Len(gpu) : \E c \in gpu[i].todo : GpuInvoke(i, c)
    \/ \E i \in 1 .. Len(gpu) : GpuFinish(i, AllDead)

SpecFlip == InitFlip /\ [][NextFlip]_vars

(***************************************************************************)
(* SpecToggle: the toggle request on a grid of one cell, under presses and *)
(* releases of the buttons, consumed or not, the window minimized and      *)
(* restored, frames that fail to acquire and frames that draw.             *)
(***************************************************************************)
ToggleEvents ==
    Events
    \cup {[type |-> "MouseInput", state |-> st, button |-> b] :
            st \in {"Pressed", "Released"}, b \in {"Left", "Right"}}

NextToggle ==
    \/ \E e \in ToggleEvents, consumed \in BOOLEAN : WindowEvent(e, consumed)
    \/ \E dt \in PaceDeltas, a \in BOOLEAN : MainEventsCleared(dt, a, Untouched)
    \/ StepResume(Untouched)
    \/ FrameEnd
    \/ \E i \in 1 .. Len(gpu) : GpuStart(i, TRUE)
    \/ \E i \in 1 .. Len(gpu) : GpuFinish(i, AllDead)

SpecToggle == InitPace /\ [][NextToggle]_vars

(***************************************************************************)
(* SpecSkip: frames that fail to acquire among frames that step and draw,  *)
(* on a grid of one cell, at several speeds, with the toggle request       *)
(* raised and the window minimized and restored.                           *)
(***************************************************************************)
InitSkip ==
    /\ size = <<1, 1>>
    /\ sameQueue = FALSE
    /\ mem = [b \in {"output", "input"} |-> AllDead]
    /\ Built(60000, <<4, 2>>, [HistInit(FALSE) EXCEPT !.tallied = TRUE])

\* Resizes, which minimize and restore the window, and events of the right
\* button.
SkipEvents ==
    {e \in ToggleEvents :
        e.type = "Resized" \/ (e.type = "MouseInput" /\ e.button = "Right")}

\* What the panel may leave in one frame: the slider dragged to speed 2, or
\* not touched.
SkipPanel ==
    {[speed |-> s, grid |-> controller.grid, click |-> "none"] :
        s \in {2, controller.speed}}

NextSkip ==
    \/ \E e \in SkipEvents, consumed \in BOOLEAN : WindowEvent(e, consumed)
    \/ \E dt \in PaceDeltas, a \in BOOLEAN, ui \in SkipPanel :
          MainEventsCleared(dt, a, ui)
    \/ \E ui \in SkipPanel : StepResume(ui)
    \/ FrameEnd
    \/ \E i \in 1 .. Len(gpu) : GpuStart(i, TRUE)
    \/ \E i \in 1 .. Len(gpu) : GpuFinish(i, AllDead)

SpecSkip == InitSkip /\ [][NextSkip]_vars

(***************************************************************************)
(* SpecGroups: the dispatch sizes on grids whose width and height lie at   *)
(* and next to the multiples of the workgroup edge.  The panel sets speed  *)
(* 0 in the first frame, 1 ms after run() began, and sends Randomize; the  *)
(* seed leaves every cell it covers alive.                                 *)
(***************************************************************************)
TileSizes ==
    {n \in {k * WorkgroupEdge + d : k \in 0 .. MaxTiles, d \in {-1, 0, 1}} : n >= 1}

InitGroups ==
    /\ size \in TileSizes \X TileSizes
    /\ sameQueue = FALSE
    /\ mem = [b \in {"output", "input"} |-> AllDead]
    /\ Constructed(60000, <<4, 2>>, FALSE)

GroupPanel ==
    {[speed |-> 0, grid |-> controller.grid, click |-> c] : c \in {"none", "Randomize"}}

\* The time since the previous MainEventsCleared.
FrameGap == IF controller.fps_counter = <<>> THEN 1 ELSE Saturate

NextGroups ==
    \/ \E ui \in GroupPanel : MainEventsCleared(FrameGap, TRUE, ui)
    \/ FrameEnd
    \/ OnRandomize
    \/ MessageDone
    \/ \E i \in 1 .. Len(gpu) : GpuStart(i, TRUE)
    \/ \E i \in 1 .. Len(gpu) : \E g \in {AllDead, AllAlive} : GpuFinish(i, g)

SpecGroups == InitGroups /\ [][NextGroups]_vars

(***************************************************************************)
(* SpecMsg: the messages of the panel on a grid of one cell, the window    *)
(* minimized and restored.  The event loop hands a pending user event to   *)
(* its handler whatever the control flow (wait or poll); the driver thread *)
(* goes on once a fence it waits for is signalled; the GPU runs what is    *)
(* submitted to it.  Window events and frames may stop coming.             *)
(***************************************************************************)
InitMsg ==
    /\ size = <<1, 1>>
    /\ sameQueue \in BOOLEAN
    /\ mem \in [{"output", "input"} -> {AllDead, AllAlive}]
    /\ Constructed(60000, <<4, 2>>, FALSE)

NextMsg ==
    \/ \E e \in Events, consumed \in BOOLEAN : WindowEvent(e, consumed)
    \/ \E dt \in Deltas, a \in BOOLEAN, ui \in Panel : MainEventsCleared(dt, a, ui)
    \/ \E ui \in Panel : StepResume(ui)
    \/ FrameEnd
    \/ OnRandomize
    \/ OnClear
    \/ MessageDone
    \/ \E i \in 1 .. Len(gpu) : GpuStart(i, TRUE)
    \/ \E i \in 1 .. Len(gpu) : \E g \in Grids : GpuFinish(i, g)

FairMsg ==
    /\ WF_vars(OnRandomize)
    /\ WF_vars(OnClear)
    /\ WF_vars(MessageDone)
    /\ WF_vars(\E ui \in Panel : StepResume(ui))
    /\ WF_vars(FrameEnd)
    /\ WF_vars(\E i \in 1 .. Len(gpu) : GpuStart(i, TRUE))
    /\ WF_vars(\E i \in 1 .. Len(gpu) : \E g \in Grids : GpuFinish(i, g))

SpecMsg == InitMsg /\ [][NextMsg]_vars /\ FairMsg

(***************************************************************************)
(* SpecFail: SpecMsg's program with failing submissions, flushes and       *)
(* waits.                                                                  *)
(***************************************************************************)
NextFail ==
    \/ NextMsg
    \/ ExpectFails
    \/ PresentFails

SpecFail == InitMsg /\ [][NextFail]_vars

(***************************************************************************)
(* Properties.                                                             *)
(***************************************************************************)
live == mem["output"]
snapshot == mem["input"]

\* The live neighbours of cell c in grid g: the 8 adjacent positions that lie
\* inside the grid and hold a live cell.
LiveAround(g, c) ==
    {d \in Cells : /\ d # c
                   /\ Abs(CellX(d) - CellX(c)) <= 1
                   /\ Abs(CellY(d) - CellY(c)) <= 1
                   /\ g[d] = 1}

NextGeneration(g) ==
    [c \in Cells |->
        LET n == Cardinality(LiveAround(g, c))
        IN  IF (g[c] = 1 /\ (n = 2 \/ n = 3)) \/ (g[c] = 0 /\ n = 3) THEN 1 ELSE 0]

\* C1: once the evolution of a step() has finished, each cell is alive iff it
\* was alive with exactly 2 or 3 live neighbours or dead with exactly 3, the
\* neighbours being the 8 adjacent cells inside the grid (no wraparound).
C1_StepAppliesRule == hist.stepDone => live = NextGeneration(hist.stepPre)

\* C1, witness: on a 3x3 grid a single live cell at (1,1) is dead after a step.
Lonely == [c \in Cells |-> IF c = Index(1, 1) THEN 1 ELSE 0]
C1_Witness ==
    /\ size = <<3, 3>>
    /\ hist.stepDone
    /\ hist.stepPre = Lonely
    /\ live = AllDead

\* The evolution dispatches in flight, no evolution submitted and unfinished,
\* and the cells of dispatch i whose invocation has run.
Evolving == Running({"evolve"})
NoEvolution == OfKind({"evolve"}) = {}
Written(i) == Covered(group_size) \ gpu[i].todo

\* C2: the evolution reads the snapshot only and writes the live buffer only,
\* the two being distinct buffers: while it runs the snapshot stays the
\* pre-step grid and every cell already written holds the rule's value for
\* the pre-step grid, and once it has finished the live grid is the next
\* generation of the pre-step grid, whatever the order of the invocations.
C2_OrderIndependent ==
    /\ Binding0 # Binding1
    /\ \A i \in Evolving :
          /\ snapshot = hist.stepPre
          /\ \A c \in Written(i) : live[c] = NextGeneration(hist.stepPre)[c]
    /\ (hist.stepDone /\ NoEvolution) => live = NextGeneration(hist.stepPre)

\* C2, witness: on a 3x1 grid of live cells both ends have been written (and
\* are dead) before the invocation of the middle cell runs.
C2_Witness ==
    /\ size = <<3, 1>>
    /\ hist.stepPre = AllAlive
    /\ \E i \in Evolving : gpu[i].todo = {1}
    /\ live = [c \in Cells |-> IF c = 1 THEN 1 ELSE 0]
    /\ snapshot = AllAlive

\* C3: the copy of a step begins only after the gate future (the acquired
\* image and the previous frame's end), the driver stays in step() until the
\* copy has finished, and an evolution is submitted only with no copy
\* outstanding and the snapshot equal to the live grid step() was called on.
C3_CopyBeforeEvolution ==
    /\ Running({"copy"}) # {} => OfKind({"acquire", "present"}) = {}
    /\ OfKind({"copy"}) # {} => pc = "step_wait"
    /\ OfKind({"evolve"}) # {} =>
          /\ OfKind({"copy"}) = {}
          /\ snapshot = hist.stepPre

\* C3, witness: an evolution is submitted and has not begun; the snapshot,
\* all dead at construction, is the live grid of the step.
C3_Witness ==
    /\ \E i \in OfKind({"evolve"}) : ~gpu[i].run
    /\ hist.stepped
    /\ ~hist.evolved
    /\ hist.stepPre = AllAlive
    /\ snapshot = AllAlive

\* C4: in a frame that called step(), the draw executes only when the
\* evolution of that step has finished: it reads the complete next generation.
C4_DrawAfterEvolution ==
    (hist.stepped /\ Running({"draw"}) # {}) =>
        /\ hist.stepDone
        /\ NoEvolution
        /\ live = NextGeneration(hist.stepPre)

\* C4, witness: the draw of a stepping frame runs and the grid it reads is
\* not the grid step() was called on.
C4_Witness ==
    /\ hist.stepped
    /\ Running({"draw"}) # {}
    /\ hist.stepDone
    /\ live # hist.stepPre

\* C5: steps do not overlap on the GPU: at most one evolution is outstanding,
\* and a copy begins only when no evolution is outstanding.
C5_StepsSerialized ==
    /\ Cardinality(OfKind({"evolve"})) <= 1
    /\ Running({"copy"}) # {} => NoEvolution

\* C5, witness: the copy of a later step runs after an earlier evolution has
\* finished.
C5_Witness ==
    /\ Running({"copy"}) # {}
    /\ hist.evolved
    /\ NoEvolution

C6_WitnessOneQueue ==
    /\ sameQueue
    /\ Running({"draw"}) # {}
    /\ hist.stepped
    /\ hist.evolved

\* C7: while the seed of a Randomize or the fill of a Clear is outstanding the
\* driver is inside that message's handler and nothing else is on the GPU: no
\* event, message or frame is handled before the work has completed.
C7_HandlersBlock ==
    \A i \in OfKind({"seed", "fill"}) :
        /\ pc = (IF gpu[i].kind = "seed" THEN "randomize_wait" ELSE "clear_wait")
        /\ Len(gpu) = 1

\* C7, witness: the driver is blocked in the Randomize handler while the seed
\* dispatch runs.
C7_Witness ==
    /\ pc = "randomize_wait"
    /\ Running({"seed"}) # {}

\* C8: whenever the last write of the live buffer was a clear, every cell is
\* dead: after a clear, after clear, randomize, clear, and after clear, clear.
C8_ClearZeroes ==
    hist.writes \in {1, 3} => live = AllDead

\* C8, witness: clear, randomize, clear have finished in this order and the
\* snapshot shows that the grid was not dead to begin with.
C8_Witness ==
    /\ hist.writes = 3
    /\ pc = "clear_wait"
    /\ live = AllDead
    /\ snapshot = AllAlive

\* A horizontal row of three live cells centred at (x, y) with a dead margin
\* of one cell on every side, and the column of three through the same centre.
BlinkerRow(g) ==
    \E x \in 2 .. (width - 3), y \in 1 .. (height - 2) : g = Row(x - 1, y, 3)
BlinkerColumn(g) ==
    LET c == CHOOSE c \in Cells : g[c] = 1 /\ g[c - 1] = 1 /\ g[c + 1] = 1
    IN  [d \in Cells |-> IF CellX(d) = CellX(c) /\ Abs(CellY(d) - CellY(c)) <= 1
                         THEN 1 ELSE 0]

\* C9: a row of three live cells with a dead margin becomes the column of
\* three through the same centre after one step() and is the original grid
\* again after two.
C9_Blinker ==
    (BlinkerRow(hist.origin) /\ NoEvolution) =>
        /\ hist.steps = 1 => live = BlinkerColumn(hist.origin)
        /\ hist.steps = 2 => live = hist.origin

C9_Witness ==
    /\ BlinkerRow(hist.origin)
    /\ NoEvolution
    /\ hist.steps = 2
    /\ live = hist.origin
    /\ snapshot = BlinkerColumn(hist.origin)

\* The cell picked when the cursor is on the pixel cell (x, y) is rendered at.
Picked(x, y) ==
    cursor_game_position([camera EXCEPT !.cursor_pos = Forward(camera, x, y)])

\* C10: in every camera state reached by resize, pan and zoom events, the
\* pixel a cell is rendered at through matrix() is picked back as that cell
\* by cursor_game_position(), for every cell of the grid.
C10_PickInvertsForward ==
    \A x \in 0 .. (width - 1), y \in 0 .. (height - 1) : Picked(x, y) = <<x, y>>

\* C10, witness: the window has been resized, the view zoomed and panned, and
\* the far corner cell is picked back.
C10_Witness ==
    /\ camera.screen_size # <<Whole(4), Whole(2)>>
    /\ camera.scale # Whole(1)
    /\ camera.translation.x # Whole(0)
    /\ camera.translation.y # Whole(0)
    /\ Picked(width - 1, height - 1) = <<width - 1, height - 1>>

\* C11: the cell cursor_game_position() returns, which Presenter::draw hands
\* on as the toggle position, lies inside the grid, wherever the cursor is.
C11_PickInRange ==
    /\ cursor_game_position(camera)[1] < width
    /\ cursor_game_position(camera)[2] < height

\* Whether a and b are in order: a <= b.
QAtMost(a, b) == ~QLess(b, a)

\* C12: after any sequence of camera events both components of the
\* translation lie in [-1, 1].
C12_TranslationClamped ==
    /\ QAtMost(Whole(-1), camera.translation.x)
    /\ QAtMost(camera.translation.x, Whole(1))
    /\ QAtMost(Whole(-1), camera.translation.y)
    /\ QAtMost(camera.translation.y, Whole(1))

\* C12, witness: a drag has taken the translation to the end of its range on
\* one axis and strictly inside it on the other.
C12_Witness ==
    /\ camera.moving
    /\ Abs(camera.translation.x[1]) = camera.translation.x[2]
    /\ camera.translation.y # Whole(0)
    /\ QLess(camera.translation.y, Whole(1))
    /\ QLess(Whole(-1), camera.translation.y)

InFrame == pc \in {"step_wait", "present_wait"}

\* C14: a frame whose pacing test finds speed 0 does not step, whatever time
\* has elapsed; nothing of a step is on the GPU in such a frame.
C14_SpeedZeroNeverSteps ==
    (InFrame /\ hist.speed = 0) =>
        /\ ~hist.stepped
        /\ pc # "step_wait"
        /\ OfKind({"copy", "evolve"}) = {}

\* C14, witness: a frame at speed 0, more than a second after the last step,
\* draws without stepping.
C14_Witness ==
    /\ pc = "present_wait"
    /\ hist.speed = 0
    /\ hist.elapsed = Saturate
    /\ ~hist.stepped
    /\ hist.evolved

\* C15: a frame that reaches the pacing test steps iff speed > 0 and the time
\* since the last step (since run() began, before the first) is strictly
\* greater than floor(1000 / speed); the pacing clock restarts at a step and
\* runs on otherwise.
C15_PacingTest ==
    InFrame =>
        /\ hist.stepped <=> (hist.speed > 0 /\ hist.elapsed > 1000 \div hist.speed)
        /\ hist.stepped => timer = 0
        /\ ~hist.stepped => timer = hist.elapsed

\* C15, witness: at speed 2 a frame exactly 500 ms after the last step does
\* not step.
C15_Witness ==
    /\ InFrame
    /\ hist.speed = 2
    /\ hist.elapsed = 500
    /\ ~hist.stepped
    /\ timer = 500
    /\ hist.evolved

\* C15: and the frame 250 ms later does.
C15_WitnessStep ==
    /\ pc = "step_wait"
    /\ hist.speed = 2
    /\ hist.elapsed = 750
    /\ timer = 0

\* The operations a frame submits.
FrameOps == {"acquire", "copy", "evolve", "draw", "gui", "present"}

C17_MinimizedTimeExcluded ==
    (InFrame /\ hist.stepped) => hist.awake > 1000 \div hist.speed

\* The grid g with the cell at `position` inverted.
Inverted(g, position) ==
    [c \in Cells |-> IF c = position[2] * width + position[1]
                     THEN (IF g[c] = 1 THEN 0 ELSE 1) ELSE g[c]]

\* C18: a flip at a position of the grid runs as one workgroup of one
\* invocation; once it has finished the live buffer is what it was when
\* flip() was called with that one cell inverted, and the snapshot buffer is
\* what it was.
C18_ToggleFlipsOneCell ==
    /\ \A i \in Running({"toggle"}) : gpu[i].todo \subseteq {<<0, 0, 0>>}
    /\ hist.flipDone =>
          /\ live = Inverted(hist.flipPre["output"], hist.flipAt)
          /\ snapshot = hist.flipPre["input"]

\* C18, witness: on a row of three cells, the others alive and the snapshot
\* all dead, the dead middle cell has been flipped.
C18_Witness ==
    /\ hist.flipDone
    /\ size = <<3, 1>>
    /\ hist.flipAt = <<1, 0>>
    /\ hist.flipPre["output"][1] = 0
    /\ live = AllAlive
    /\ snapshot = AllDead

\* C19: the speed lies between 0 and max_speed in every state.
C19_SpeedInRange ==
    /\ controller.speed >= 0
    /\ controller.speed <= controller.max_speed

Taken ==
    /\ Len(gpu') = Len(gpu) + 1
    /\ gpu'[Len(gpu')].kind = (IF Head(msgs) = "Randomize" THEN "seed" ELSE "fill")

\* C21: a message of the panel that is pending is handled, whether or not
\* the window is minimized; no message leaves the queue but through its
\* handler, which submits the seed or the fill.
C21_MessagesProcessed ==
    /\ (msgs # <<>>) ~> (msgs = <<>>)
    /\ [][(msgs # <<>> /\ msgs' = Tail(msgs)) => Taken]_vars

\* C21, witness: the handler of Clear runs while the window is minimized.
C21_Witness ==
    /\ minimized
    /\ pc = "clear_wait"
    /\ Running({"fill"}) # {}

\* C22: once a submission, a flush or a wait has failed the process has
\* ended: the driver handles nothing more and no later frame or step begins.
C22_FailureTerminates ==
    hist.failed => pc = "panicked"

\* a brought into [-1, 1].
Bounded(a) ==
    IF a[1] < -a[2] THEN <<-1, 1>> ELSE IF a[1] > a[2] THEN <<1, 1>> ELSE a

\* The translation on one axis after a drag from pixel `from` to pixel `to`
\* across a window `extent` pixels wide, at `zoom`.
Dragged(t, from, to, extent, zoom) ==
    Bounded(QAdd(t, QDiv(QDiv(QMul(QSub(to, from), Whole(2)), extent), zoom)))

\* C23: the camera is dragging exactly when the last left-button event it
\* was given was a press (not when it was a release or there was none); no
\* other event changes the flag; a cursor move while dragging moves the view
\* by its distance from the last cursor position before it, which for the
\* first move after a press is where the cursor was at the press.
C23_DraggingFollowsLeftButton ==
    /\ [](camera.moving <=> hist.lastLeft = "Pressed")
    /\ [][camera'.moving # camera.moving => hist'.lastLeft # hist.lastLeft]_vars
    /\ [][(camera.moving /\ hist'.cursor # hist.cursor) =>
            /\ camera'.translation.x =
                  Dragged(camera.translation.x, hist.cursor.x, hist'.cursor.x,
                          camera.screen_size[1], camera.scale)
            /\ camera'.translation.y =
                  Dragged(camera.translation.y, hist.cursor.y, hist'.cursor.y,
                          camera.screen_size[2], QDiv(camera.scale, camera.ratio))]_vars

\* C23, witness: in a window 4 pixels wide the cursor went to pixel 3, the
\* left button was pressed, and the cursor went on to pixel 4: the view has
\* moved by the one pixel since the press, a quarter of the window.
C23_Witness ==
    /\ camera.moving
    /\ hist.lastLeft = "Pressed"
    /\ hist.events = 3
    /\ camera.screen_size[1] = Whole(4)
    /\ hist.cursor.x = Whole(4)
    /\ camera.translation.x = Q(1, 2)

\* The ratio of the grid's aspect to that of a viewport.
AspectCorrection(viewport) ==
    Q(width * viewport[2][1] * viewport[1][2], height * viewport[1][1] * viewport[2][2])

\* C24: the aspect correction is (grid width / grid height) / (viewport
\* width / viewport height) for the stored viewport; a resize event with a
\* dimension of zero changes no field of the camera; an event that changes
\* the stored viewport stores a viewport without a zero dimension and
\* changes neither scale, translation, dragging flag nor cursor position.
C24_ResizeEffect ==
    /\ [](camera.ratio = AspectCorrection(camera.screen_size))
    /\ [][(~hist.zeroSized /\ hist'.zeroSized) => camera' = camera]_vars
    /\ [][camera'.screen_size # camera.screen_size =>
            /\ camera'.screen_size[1][1] > 0 /\ camera'.screen_size[2][1] > 0
            /\ camera'.scale = camera.scale
            /\ camera'.translation = camera.translation
            /\ camera'.moving = camera.moving
            /\ camera'.cursor_pos = camera.cursor_pos]_vars

\* C24, witness: a zoomed, dragging camera whose viewport is a square has
\* been given a resize event with a dimension of zero.
C24_Witness ==
    /\ hist.zeroSized
    /\ camera.moving
    /\ camera.scale # Whole(1)
    /\ camera.screen_size = <<Whole(2), Whole(2)>>
    /\ camera.ratio = Q(width, height)

\* C25: a window event the panel consumes changes no field of the camera,
\* nor the minimized flag, nor the toggle request.
C25_ConsumedEventsStop ==
    [][(hist'.events # hist.events /\ hist'.consumed) =>
          /\ camera' = camera
          /\ minimized' = minimized
          /\ flip' = flip]_vars

\* C25, witness: after an unconsumed press of the right button and an
\* unconsumed zero-sized resize, a third event was consumed: the toggle
\* request and the minimized flag stand.
C25_Witness ==
    /\ hist.consumed
    /\ hist.events = 3
    /\ flip
    /\ minimized

\* C26: between frames the toggle request is set exactly when a press of
\* the right button has reached run() since the last frame was presented;
\* the draw of a frame is recorded with the request as it stood when the
\* frame began, and the request is not changed while the frame is under way.
C26_ToggleRequest ==
    /\ flip <=> hist.presses > 0
    /\ \A i \in OfKind({"draw"}) : gpu[i].push = <<hist.presses > 0>>

\* C26, witness: two presses of the right button, then a frame skipped
\* because the window was minimized; the frame drawn after the window was
\* restored carries the one request.
C26_Witness ==
    /\ pc = "present_wait"
    /\ hist.presses = 2
    /\ hist.awake < hist.elapsed
    /\ \E i \in OfKind({"draw"}) : gpu[i].push = <<TRUE>>

\* C26, witness: the frame after it draws without a request.
C26_WitnessCleared ==
    /\ pc = "present_wait"
    /\ hist.presses = 0
    /\ hist.awake < hist.elapsed
    /\ \E i \in OfKind({"draw"}) : gpu[i].push = <<FALSE>>

\* The entries of the fps window.
Window == {controller.fps_counter[k] : k \in 1 .. Len(controller.fps_counter)}

\* C27: in a frame that has updated the fps window, the window is not empty,
\* its newest entry is the frame's own time, and it holds each of the times
\* recorded so far that is less than 1000 ms old, once, and no other; the
\* frame steps or not by speed and elapsed time alone.
C27_FpsWindow ==
    InFrame =>
        /\ controller.fps_counter # <<>>
        /\ controller.fps_counter[Len(controller.fps_counter)] = 0
        /\ Window = {a \in hist.stamps : a < 1000}
        /\ Cardinality(Window) = Len(controller.fps_counter)
        /\ hist.stepped <=> (hist.speed > 0 /\ hist.elapsed * hist.speed > 1000 - (1000 % hist.speed))

\* C27, witness: a fifth frame 250 ms after the fourth: the first frame's
\* time is 1000 ms old and has left the window, the other four are in it.
C27_Witness ==
    /\ pc = "present_wait"
    /\ controller.fps_counter = <<750, 500, 250, 0>>
    /\ 1000 \in hist.stamps

\* g is the least count of workgroups whose 32 invocations along an axis
\* reach n cells.
LeastCount(g, n) ==
    /\ g >= 0
    /\ 32 * g >= n
    /\ g > 0 => 32 * (g - 1) < n

\* Sizes at the ends of the range: none, the default, and the multiples of
\* 32 (and their neighbours) next to the largest integer of the model.
EndSizes == {0, 1024, 2147483585, 2147483615, 2147483616}

\* C28: the step's dispatch has the least workgroup counts that reach the
\* grid's width and height, and 1; the seed's dispatch has the same; every
\* cell is stood on by an invocation, and a seed that writes one value, on
\* a grid all dead, leaves no cell out.  The counts are the least ones for the sizes at the ends of the
\* range as well.
C28_GroupCounts ==
    /\ LeastCount(group_size[1], width)
    /\ LeastCount(group_size[2], height)
    /\ group_size[3] = 1
    /\ randomizer_group_size = group_size
    /\ {c \in Cells : c % width < 32 * randomizer_group_size[1]
                        /\ c \div width < 32 * randomizer_group_size[2]} = Cells
    /\ live \in {AllDead, AllAlive}
    /\ \A n \in EndSizes :
          /\ LeastCount(GroupCount(n), n)
          /\ RandomizerGroupCount(n) = GroupCount(n)

\* C28, witness: a grid of 33 by 32 cells, two workgroups by one, has been
\* seeded.
C28_Witness ==
    /\ size = <<33, 32>>
    /\ group_size = <<2, 1, 1>>
    /\ live = AllAlive
    /\ pc = "idle"

\* C29: only the copy of a step() writes the snapshot (randomize and clear
\* leave it as it was), and whatever the snapshot held when step() was
\* called, the finished step is the rule applied to the live content of
\* that moment, the content left by the last randomize or clear.
C29_StaleSnapshotHarmless ==
    /\ [][snapshot' # snapshot => Running({"copy"}) # {}]_vars
    /\ [][\A i \in Running({"seed", "fill"}) :
            Len(gpu') < Len(gpu) => snapshot' = snapshot]_vars
    /\ [](hist.stepDone =>
            \A c \in Cells :
                live[c] = 1 <=>
                    LET n == Cardinality(LiveAround(hist.stepPre, c))
                    IN  n = 3 \/ (n = 2 /\ hist.stepPre[c] = 1))

\* C29, witness: on a row of three cells, step() was called on the content
\* alive, alive, dead, which only a randomize leaves, with a snapshot that
\* differed from it; the step has finished and every cell is dead.
C29_Witness ==
    /\ size = <<3, 1>>
    /\ hist.stepDone
    /\ hist.stale
    /\ hist.stepPre = [c \in Cells |-> IF c = 2 THEN 0 ELSE 1]
    /\ live = AllDead

\* C29, witness: a step() on a dead grid, called with a snapshot of live
\* cells, has finished and the grid is dead: the snapshot, whose middle cell
\* would survive, played no part.
C29_WitnessCleared ==
    /\ size = <<3, 1>>
    /\ hist.stepDone
    /\ hist.stale
    /\ hist.stepPre = AllDead
    /\ snapshot = AllDead
    /\ live = AllDead
    /\ hist.writes = 0
    /\ hist.evolved

============================================================================
